---- MODULE Spec2Model ----
(***************************************************************************)
(* Model of the MindReader pipeline of node-manager                        *)
(* (mindreader/mindreader.go, mindreader/gator.go): the log producer, the  *)
(* read task, the consume task, the uploader task, the stop-block          *)
(* goroutines and the shutter's Shutdown / on-terminating hook.            *)
(***************************************************************************)
EXTENDS Integers, Sequences, FiniteSets, TLC

\* ---------------------------------------------------------------- bounds
MaxLines == 2       \* LogLine calls per behaviour
MaxNum == 2         \* block numbers are 1..MaxNum
MaxCap == 2         \* channelCapacity
MaxSpin == 1        \* reads performed after the pipe was closed with an error
MaxFewLines == 1    \* LogLine calls per behaviour of the host that logs few lines
MaxCloses == 1      \* Close calls per behaviour
MaxMods == 2        \* backup modules of each kind (restorable or not)
MaxFreqLen == 2     \* characters of a block frequency string
MaxDurLen == 3      \* characters of a time frequency string
MaxSuffixLen == 3   \* characters of a suffix that is not one of the tests'
MaxInput == 3       \* blocks of a selector input that is not a row of the test
UintBits == 4       \* bits of the model's uint64 and int (64 in the program)

Nums == 1..MaxNum

\* What one line written by LogLine makes consoleReader.Read / transformer
\* produce: a block, a console-reader error, or a transformer error.
Lines ==
  [k : {"blk"}, n : Nums] \cup {[k |-> "readErr", n |-> 0], [k |-> "xformErr", n |-> 0]}

VARIABLES
  gator,               \* BlockNumberGate: [passed, blockNum]
  stopAtBlockNum,      \* p.stopAtBlockNum (0 = none)
  channelCapacity,     \* p.channelCapacity
  continuityChecker,   \* p.continuityChecker != nil
  blockServer,         \* p.blockServer != nil
  running,             \* Run was called
  spawned,             \* go statements executed, per task: [read, consume, upload]
  writer,              \* pipe writer: [closed, err]
  pipe,                \* the line a blocked writer.Write is handing to the reader
  blocks,              \* the blocks channel
  consumeReadFlowDone, \* the channel is closed
  terminating,         \* shutter: Terminating() is closed
  shutErr,             \* shutter: the cause handed to the hooks
  terminated,          \* shutter: Shutdown ran to its end
  hookPc,              \* position inside the OnTerminating hook
  hookOwner,           \* the goroutine that runs the hook
  logPc,               \* the goroutine calling LogLine
  closePc,             \* the goroutine calling Close
  readPc, readBlk,     \* read task (ReadFlow / readOneMessage)
  consumePc, fatalErr, \* consume task
  uploadPc,            \* uploader task
  uploadErr,           \* the last uploadFiles call of the uploader task failed
  stopGo,              \* spawned "go p.Shutdown(nil)" goroutines that have not run yet
  \* ----- history
  nLines, nCloses,     \* calls made so far
  reads,               \* what each consoleReader.Read call consumed
  rets,                \* what each readOneMessage call returned
  enq,                 \* every block sent on the blocks channel
  clog,                \* the calls made by the consume task, in order
  shutCalls,           \* every Shutdown call: [by, err]
  setMaintenance,      \* setMaintenanceFunc calls, per call site
  stopSpawned,         \* "go p.Shutdown(nil)" statements executed
  stopBlockReached,    \* stopBlockReachFunc calls
  enqAtTerm,           \* Len(enq) when the terminating signal was raised
  qAtFinal,            \* len(blocks) when the consume loop returned
  \* ----- operator (backup modules and schedules)
  backupModules,       \* Operator.backupModules: name -> module
  ret,                 \* what the last call on the registry returned
  freqBlocks, freqTime,            \* NewBackupSchedule: the two frequency strings
  requiredHostname, backuperName,  \* NewBackupSchedule: passed through
  sched,               \* what NewBackupSchedule returned
  \* ----- archiver selector, as TestArchiverSelector drives it
  test,                \* the row of the test table that is run (0: another input)
  input,               \* test.input: the numbers of the blocks to store
  fed,                 \* the StoreBlock calls made so far
  archiverSelector,    \* [mode, lastSeenNumber, mergeThresholdBlockAge]
  mergeArchiver,       \* [buffer, uploaded]
  oneBlocks,           \* the one-block files written, by block number
  storeBlockErr,       \* the error of the last StoreBlock call on the selector
  found,               \* what the test found in workDir and in the buffer
  \* ----- one-block suffix validation, as the plugin's test drives it
  suffixTest,          \* the assertion of the test that is run (0: another input)
  suffix,              \* the argument of validateOneBlockSuffix
  suffixRet,           \* what validateOneBlockSuffix returned
  \* ----- archiver
  archiverCalls        \* the calls on p.archiver that have not returned: [by, call, n]

confVars == <<gator, stopAtBlockNum, channelCapacity, continuityChecker, blockServer, running, spawned>>
pipeVars == <<writer, pipe>>
shutVars == <<terminating, shutErr, terminated, hookPc, hookOwner, shutCalls, enqAtTerm>>
prodVars == <<logPc, closePc, nLines, nCloses>>
readVars == <<readPc, readBlk, reads, rets, enq, stopSpawned>>
consVars == <<consumePc, fatalErr, clog, consumeReadFlowDone, qAtFinal>>
miscVars == <<uploadPc, uploadErr, stopGo, stopBlockReached>>

\* the MindReader plugin
mrVars == <<confVars, pipeVars, blocks, shutVars, prodVars, readVars, consVars, miscVars, setMaintenance>>

opVars == <<backupModules, ret>>
schedVars == <<freqBlocks, freqTime, requiredHostname, backuperName, sched>>

\* everything outside the MindReader plugin
selVars == <<test, input, fed, archiverSelector, mergeArchiver, oneBlocks, storeBlockErr, found>>
sufVars == <<suffixTest, suffix, suffixRet>>
accVars == <<archiverCalls>>
extVars == <<opVars, schedVars, selVars, sufVars, accVars>>

vars == <<mrVars, extVars>>

\* ------------------------------------------------------------- helpers
Last(s) == s[Len(s)]

\* pass without the early return on g.passed: the gate is recomputed each call
pass_notSticky(g, n) ==
  [g EXCEPT !.passed = (n >= g.blockNum)]

\* BlockNumberGate.pass: the gate after the call; the call returns .passed
pass(g, n) ==
  IF g.passed THEN g ELSE [g EXCEPT !.passed = (n >= g.blockNum)]

\* a receive that takes the newest element of the channel
recv_newest(q) == [blk |-> q[Len(q)], rest |-> SubSeq(q, 1, Len(q) - 1)]

\* block := <-blocks
recv(q) == [blk |-> Head(q), rest |-> Tail(q)]

\* the stop-block condition with > in place of >=
stopReached_strict(stop, n, term) == stop # 0 /\ n > stop /\ ~term

\* readOneMessage, the stop-block condition
stopReached(stop, n, term) == stop # 0 /\ n >= stop /\ ~term

\* a read loop that returns on any error
ReadFlowOnResult_returnOnError(err) ==
  IF err = "nil" THEN [pc |-> "read", maint |-> 0]
  ELSE IF err = "EOF" THEN [pc |-> "done", maint |-> 0]
  ELSE [pc |-> "done", maint |-> 1]

\* ReadFlow, what the loop does with the error readOneMessage returned
ReadFlowOnResult(err) ==
  IF err = "nil" THEN [pc |-> "read", maint |-> 0]
  ELSE IF err = "EOF" THEN [pc |-> "done", maint |-> 0]
  ELSE [pc |-> "read", maint |-> 1]

\* a consume loop that does not look at the error of storeBlock
afterStore_ignoreErr(err) ==
  IF continuityChecker THEN "check"
  ELSE IF blockServer THEN "push" ELSE "select"

\* consumeReadFlow, where the loop goes after each call on a block
afterStore(err) ==
  IF err THEN "fatal"
  ELSE IF continuityChecker THEN "check"
  ELSE IF blockServer THEN "push" ELSE "select"

\* a continuity error that does not skip the publish
afterCheck_noContinue(err) ==
  IF blockServer THEN "push" ELSE "select"

\* a continuity error handled as a fatal error
afterCheck_fatal(err) ==
  IF err THEN "fatal" ELSE IF blockServer THEN "push" ELSE "select"

afterCheck(err) ==
  IF err THEN "select" ELSE IF blockServer THEN "push" ELSE "select"

afterPush(err) == IF err THEN "fatal" ELSE "select"

\* a Shutdown that runs the OnTerminating hook on every call
Shutdown_hookEveryCall(by, err) ==
  /\ shutCalls' = Append(shutCalls, [by |-> by, err |-> err])
  /\ terminating' = TRUE
  /\ shutErr' = err
  /\ hookPc' = "wait"
  /\ hookOwner' = IF terminating THEN hookOwner ELSE by
  /\ enqAtTerm' = IF terminating THEN enqAtTerm ELSE Len(enq)
  /\ setMaintenance' = [setMaintenance EXCEPT !.hook = @ + 1]
  /\ UNCHANGED terminated

\* shutter.Shutdown(err) called by goroutine `by`: only the first call raises
\* the terminating signal and runs the OnTerminating hook in the caller's
\* goroutine, later calls return at once. The hook's first statement,
\* setMaintenanceFunc(), is taken in the same step.
Shutdown(by, err) ==
  /\ shutCalls' = Append(shutCalls, [by |-> by, err |-> err])
  /\ IF ~terminating
       THEN /\ terminating' = TRUE
            /\ shutErr' = err
            /\ hookPc' = "wait"
            /\ hookOwner' = by
            /\ enqAtTerm' = Len(enq)
            /\ setMaintenance' = [setMaintenance EXCEPT !.hook = @ + 1]
       ELSE UNCHANGED <<terminating, shutErr, hookPc, hookOwner, enqAtTerm, setMaintenance>>
  /\ UNCHANGED terminated

\* ------------------------------------------ operator: the initial state
NoModule == [id |-> 0, restore |-> FALSE]
NoRet == [op |-> "none", name |-> "", mod |-> NoModule, err |-> "nil"]
NoSched ==
  [err |-> "none", BlocksBetweenRuns |-> 0, TimeBetweenRuns |-> 0,
   RequiredHostnameMatch |-> "", BackuperName |-> ""]

\* the zero Operator: backupModules is nil, nothing was called
OperatorInit ==
  /\ backupModules = [n \in {} |-> NoModule]
  /\ ret = NoRet

\* NewBackupSchedule was not called
NoSchedule ==
  /\ freqBlocks = <<>>
  /\ freqTime = <<>>
  /\ requiredHostname = ""
  /\ backuperName = ""
  /\ sched = NoSched

\* ----------------------------------- archiver selector: the initial state
NotChecked ==
  [oneBlocks |-> <<>>, uploadedMergedBlocks |-> <<>>, bufferedMergedBlocks |-> <<>>,
   checked |-> FALSE]

\* archiverSelector.Init() on fresh archivers with the given threshold:
\* one-block mode, no block seen, empty buffer, empty working directory
SelectorInit(threshold) ==
  /\ fed = 0
  /\ archiverSelector =
       [mode |-> "one-block", lastSeenNumber |-> -1, mergeThresholdBlockAge |-> threshold]
  /\ mergeArchiver = [buffer |-> <<>>, uploaded |-> <<>>]
  /\ oneBlocks = {}
  /\ storeBlockErr = "nil"
  /\ found = NotChecked

\* no selector test is run
NoSelector ==
  /\ test = 0
  /\ input = <<>>
  /\ SelectorInit(0)

\* validateOneBlockSuffix was not called
NotValidated == [called |-> FALSE, err |-> FALSE, text |-> "", arg |-> <<>>]

NoSuffix ==
  /\ suffixTest = 0
  /\ suffix = <<>>
  /\ suffixRet = NotValidated

\* --------------------------------------------------------------- Init
\* everything but the configuration NewMindReaderPlugin was called with
InitState ==
  /\ blockServer = FALSE
  /\ running = FALSE
  /\ spawned = [read |-> 0, consume |-> 0, upload |-> 0]
  /\ archiverCalls = <<>>
  /\ writer = [closed |-> FALSE, err |-> "none"]
  /\ pipe = <<>>
  /\ blocks = <<>>
  /\ consumeReadFlowDone = FALSE
  /\ terminating = FALSE
  /\ shutErr = "none"
  /\ terminated = FALSE
  /\ hookPc = "idle"
  /\ hookOwner = "none"
  /\ logPc = "idle"
  /\ closePc = [pc |-> "idle", err |-> "none"]
  /\ readPc = "idle"
  /\ readBlk = 0
  /\ consumePc = "idle"
  /\ fatalErr = "none"
  /\ uploadPc = "idle"
  /\ uploadErr = FALSE
  /\ stopGo = 0
  /\ nLines = 0
  /\ nCloses = 0
  /\ reads = <<>>
  /\ rets = <<>>
  /\ enq = <<>>
  /\ clog = <<>>
  /\ shutCalls = <<>>
  /\ setMaintenance = [read |-> 0, cont |-> 0, hook |-> 0]
  /\ stopSpawned = 0
  /\ stopBlockReached = 0
  /\ enqAtTerm = 0
  /\ qAtFinal = 0

\* NewMindReaderPlugin: startBlockNum, stopBlockNum, channelCapacity and
\* failOnNonContinuousBlocks are the caller's choice
Init ==
  /\ gator \in [passed : {FALSE}, blockNum : {0} \cup 2..MaxNum]
  /\ stopAtBlockNum \in {0} \cup 2..MaxNum
  /\ channelCapacity = MaxCap
  /\ continuityChecker \in BOOLEAN
  /\ InitState
  /\ OperatorInit
  /\ NoSchedule
  /\ NoSelector
  /\ NoSuffix

\* ---------------------------------------------------------------- Run
Run ==
  /\ ~running
  /\ running' = TRUE
  /\ spawned' = [read |-> spawned.read + 1, consume |-> spawned.consume + 1,
                 upload |-> spawned.upload + 1]
  /\ blockServer' \in BOOLEAN
  /\ readPc' = "read"
  /\ consumePc' = "select"
  /\ uploadPc' = "check"
  /\ UNCHANGED <<gator, stopAtBlockNum, channelCapacity, continuityChecker>>
  /\ UNCHANGED <<pipeVars, blocks, shutVars, prodVars>>
  /\ UNCHANGED <<readBlk, reads, rets, enq, stopSpawned>>
  /\ UNCHANGED <<fatalErr, clog, consumeReadFlowDone, qAtFinal>>
  /\ UNCHANGED <<uploadErr, stopGo, setMaintenance, stopBlockReached>>
  /\ UNCHANGED extVars

\* Steps that only call a collaborator (archiver, continuity checker, block
\* server, maintenance callback) touch no state shared between goroutines and
\* are taken together with the adjoining step on shared state.

\* ------------------------------------------------------------ LogLine
\* a LogLine that ignores the error of writer.Write on a closed pipe
LogLineOf_dropOnClosed(lines, max) ==
  /\ logPc = "idle"
  /\ nLines < max
  /\ nLines' = nLines + 1
  /\ IF writer.closed
       THEN /\ logPc' = "idle"
            /\ UNCHANGED <<pipe, shutVars, setMaintenance>>
       ELSE /\ logPc' = "writing"
            /\ \E l \in lines : pipe' = <<l>>
            /\ UNCHANGED <<shutVars, setMaintenance>>
  /\ UNCHANGED <<confVars, writer, blocks, closePc, nCloses, readVars, consVars, miscVars>>
  /\ UNCHANGED extVars

\* LogLine(in): writer.Write blocks until the reader took the line; on a
\* closed pipe it fails and LogLine calls Shutdown(err).
LogLineOf(lines, max) ==
  /\ logPc = "idle"
  /\ nLines < max
  /\ nLines' = nLines + 1
  /\ IF writer.closed
       THEN /\ Shutdown("log", "writeErr")
            /\ logPc' = IF terminating THEN "idle" ELSE "inShutdown"
            /\ UNCHANGED pipe
       ELSE /\ logPc' = "writing"
            /\ \E l \in lines : pipe' = <<l>>
            /\ UNCHANGED <<shutVars, setMaintenance>>
  /\ UNCHANGED <<confVars, writer, blocks, closePc, nCloses, readVars, consVars, miscVars>>
  /\ UNCHANGED extVars

LogLine == LogLineOf(Lines, MaxLines)

\* LogLine whose Write was cut short by Close: p.Shutdown(err)
LogLineShutdown ==
  /\ logPc = "shut"
  /\ Shutdown("log", "writeErr")
  /\ logPc' = IF terminating THEN "idle" ELSE "inShutdown"
  /\ UNCHANGED <<confVars, pipeVars, blocks, closePc, nLines, nCloses, readVars, consVars, miscVars>>
  /\ UNCHANGED extVars

\* -------------------------------------------------------------- Close
\* Close(err), first statement: p.writer.CloseWithError(err). A Write that is
\* blocked on the pipe returns with an error and its line is not delivered.
Close ==
  /\ closePc.pc = "idle"
  /\ nCloses < MaxCloses
  /\ nCloses' = nCloses + 1
  /\ \E err \in {"nil", "closeErr"} :
       /\ closePc' = [pc |-> "shut", err |-> err]
       /\ writer' = IF writer.closed THEN writer ELSE [closed |-> TRUE, err |-> err]
  /\ IF logPc = "writing" /\ ~writer.closed
       THEN pipe' = <<>> /\ logPc' = "shut"
       ELSE UNCHANGED <<pipe, logPc>>
  /\ UNCHANGED <<confVars, blocks, shutVars, nLines, readVars, consVars, miscVars, setMaintenance>>
  /\ UNCHANGED extVars

\* Close(err), second statement: p.Shutdown(err)
CloseShutdown ==
  /\ closePc.pc = "shut"
  /\ Shutdown("close", closePc.err)
  /\ closePc' = [closePc EXCEPT !.pc = IF terminating THEN "idle" ELSE "inShutdown"]
  /\ UNCHANGED <<confVars, pipeVars, blocks, logPc, nLines, nCloses, readVars, consVars, miscVars>>
  /\ UNCHANGED extVars

\* ----------------------------------------------------------- read task
\* readOneMessage returns err to ReadFlow, which handles it at once
Return(err) ==
  /\ rets' = Append(rets, err)
  /\ readPc' = ReadFlowOnResult(err).pc
  /\ setMaintenance' = [setMaintenance EXCEPT !.read = @ + ReadFlowOnResult(err).maint]

\* readOneMessage up to the channel send, on a line of the pipe
readOneMessage ==
  /\ readPc = "read"
  /\ pipe # <<>>
  /\ LET l == Head(pipe)
         g == pass(gator, l.n)
     IN /\ pipe' = <<>>
        /\ logPc' = "idle"
        /\ reads' = Append(reads, l)
        /\ IF l.k # "blk"
             THEN Return(l.k) /\ UNCHANGED <<gator, readBlk>>
             ELSE /\ gator' = g
                  /\ IF g.passed
                       THEN /\ readPc' = "send"
                            /\ readBlk' = l.n
                            /\ UNCHANGED <<rets, setMaintenance>>
                       ELSE Return("nil") /\ UNCHANGED readBlk
  /\ UNCHANGED <<stopAtBlockNum, channelCapacity, continuityChecker, blockServer, running, spawned>>
  /\ UNCHANGED <<writer, blocks, shutVars, closePc, nLines, nCloses, enq, stopSpawned>>
  /\ UNCHANGED <<consVars, miscVars>>
  /\ UNCHANGED extVars

SpinCount == Cardinality({i \in DOMAIN rets : rets[i] = "closeErr"})

\* readOneMessage when the pipe writer is closed: consoleReader.Read fails with
\* io.EOF after CloseWithError(nil), with the close error otherwise.
readOneMessageClosed ==
  /\ readPc = "read"
  /\ pipe = <<>>
  /\ writer.closed
  /\ LET err == IF writer.err = "nil" THEN "EOF" ELSE "closeErr"
     IN /\ err = "closeErr" => SpinCount < MaxSpin
        /\ reads' = Append(reads, [k |-> err, n |-> 0])
        /\ Return(err)
  /\ UNCHANGED <<confVars, pipeVars, blocks, shutVars, prodVars, readBlk, enq, stopSpawned>>
  /\ UNCHANGED <<consVars, miscVars>>
  /\ UNCHANGED extVars

\* readOneMessage: blocks <- block
Send ==
  /\ readPc = "send"
  /\ Len(blocks) < channelCapacity
  /\ blocks' = Append(blocks, readBlk)
  /\ enq' = Append(enq, readBlk)
  /\ readPc' = "stop"
  /\ UNCHANGED <<confVars, pipeVars, shutVars, prodVars, readBlk, reads, rets, stopSpawned>>
  /\ UNCHANGED <<consVars, miscVars, setMaintenance>>
  /\ UNCHANGED extVars

\* readOneMessage: the stop-block test, go p.Shutdown(nil), return nil
StopCheck ==
  /\ readPc = "stop"
  /\ IF stopReached(stopAtBlockNum, readBlk, terminating)
       THEN stopGo' = stopGo + 1 /\ stopSpawned' = stopSpawned + 1
       ELSE UNCHANGED <<stopGo, stopSpawned>>
  /\ Return("nil")
  /\ UNCHANGED <<confVars, pipeVars, blocks, shutVars, prodVars, readBlk, reads, enq>>
  /\ UNCHANGED <<consVars, uploadPc, uploadErr, stopBlockReached>>
  /\ UNCHANGED extVars

\* the goroutine started by go p.Shutdown(nil)
StopShutdown ==
  /\ stopGo > 0
  /\ stopGo' = stopGo - 1
  /\ Shutdown("stop", "nil")
  /\ UNCHANGED <<confVars, pipeVars, blocks, prodVars, readVars, consVars>>
  /\ UNCHANGED <<uploadPc, uploadErr, stopBlockReached>>
  /\ UNCHANGED extVars

\* -------------------------------------------------------- consume task
Event(op, n, err) == [op |-> op, n |-> n, err |-> err]

\* select, case <-p.Terminating()
ConsumeTerminating ==
  /\ consumePc = "select"
  /\ terminating
  /\ IF Len(blocks) = 0
       THEN consumePc' = "defer" /\ qAtFinal' = 0
       ELSE UNCHANGED <<consumePc, qAtFinal>>
  /\ UNCHANGED <<confVars, pipeVars, blocks, shutVars, prodVars, readVars, miscVars>>
  /\ UNCHANGED <<fatalErr, clog, consumeReadFlowDone, setMaintenance>>
  /\ UNCHANGED extVars

\* select, case block := <-blocks: storeBlock, continuityChecker.Write and
\* PushBlock on the received block, up to the Shutdown call of a fatal error.
\* Each of the three calls is a call on an interface and may fail.
ConsumeBlock ==
  /\ consumePc = "select"
  /\ blocks # <<>>
  /\ \E storeErr, contErr, pushErr \in BOOLEAN :
       LET b == recv(blocks).blk
           w == [err |-> contErr]
           s1 == afterStore(storeErr)
           s2 == IF s1 = "check" THEN afterCheck(w.err) ELSE s1
           s3 == IF s2 = "push" THEN afterPush(pushErr) ELSE s2
       IN /\ blocks' = recv(blocks).rest
          /\ clog' = clog \o <<Event("store", b, storeErr)>>
                          \o (IF s1 = "check" THEN <<Event("cont", b, w.err)>> ELSE <<>>)
                          \o (IF s2 = "push" THEN <<Event("push", b, pushErr)>> ELSE <<>>)
          /\ setMaintenance' =
               [setMaintenance EXCEPT
                  !.cont = @ + (IF s1 = "check" /\ w.err /\ s2 # "fatal" THEN 1 ELSE 0)]
          /\ consumePc' = s3
          /\ fatalErr' = IF s1 = "fatal" THEN "storeErr"
                         ELSE IF s2 = "fatal" THEN "contErr"
                         ELSE IF s3 = "fatal" THEN "pushErr"
                         ELSE fatalErr
  /\ UNCHANGED <<confVars, pipeVars, shutVars, prodVars, readVars, miscVars>>
  /\ UNCHANGED <<consumeReadFlowDone, qAtFinal>>
  /\ UNCHANGED extVars

\* p.Shutdown(fmt.Errorf("...: %w", err)); return
ConsumeFatal ==
  /\ consumePc = "fatal"
  /\ Shutdown("consume", fatalErr)
  /\ IF terminating
       THEN consumePc' = "defer" /\ qAtFinal' = Len(blocks)
       ELSE consumePc' = "inShutdown" /\ UNCHANGED qAtFinal
  /\ UNCHANGED <<confVars, pipeVars, blocks, prodVars, readVars, miscVars>>
  /\ UNCHANGED <<fatalErr, clog, consumeReadFlowDone>>
  /\ UNCHANGED extVars

\* deferred: p.archiver.WaitForAllFilesToUpload(); close(p.consumeReadFlowDone)
ConsumeDeferred ==
  /\ consumePc = "defer"
  /\ clog' = Append(clog, Event("wait", 0, FALSE))
  /\ consumeReadFlowDone' = TRUE
  /\ consumePc' = "done"
  /\ UNCHANGED <<confVars, pipeVars, blocks, shutVars, prodVars, readVars, miscVars>>
  /\ UNCHANGED <<fatalErr, qAtFinal, setMaintenance>>
  /\ UNCHANGED extVars

\* ------------------------------------------------------- uploader task
\* an uploader that flushes the archiver itself when it finds the signal
UploadCheck_waitOnExit ==
  /\ uploadPc = "check"
  /\ uploadPc' = IF terminating THEN "done" ELSE "upload"
  /\ archiverCalls' =
       IF terminating
         THEN Append(archiverCalls, [by |-> "upload", call |-> "WaitForAllFilesToUpload", n |-> 0])
         ELSE archiverCalls
  /\ UNCHANGED <<confVars, pipeVars, blocks, shutVars, prodVars, readVars, consVars>>
  /\ UNCHANGED <<uploadErr, stopGo, setMaintenance, stopBlockReached>>
  /\ UNCHANGED <<opVars, schedVars, selVars, sufVars>>

\* alwaysUploadFiles: if p.IsTerminating() { return }
UploadCheck ==
  /\ uploadPc = "check"
  /\ uploadPc' = IF terminating THEN "done" ELSE "upload"
  /\ UNCHANGED <<confVars, pipeVars, blocks, shutVars, prodVars, readVars, consVars>>
  /\ UNCHANGED <<uploadErr, stopGo, setMaintenance, stopBlockReached>>
  /\ UNCHANGED extVars

\* an uploader that treats an upload error as ReadFlow treats a read error
UploadFiles_maintenanceOnError ==
  /\ uploadPc = "upload"
  /\ uploadErr' \in BOOLEAN
  /\ setMaintenance' = [setMaintenance EXCEPT !.read = @ + (IF uploadErr' THEN 1 ELSE 0)]
  /\ \/ terminating /\ uploadPc' = "done"
     \/ uploadPc' = "check"
  /\ UNCHANGED <<confVars, pipeVars, blocks, shutVars, prodVars, readVars, consVars>>
  /\ UNCHANGED <<stopGo, stopBlockReached>>
  /\ UNCHANGED extVars

\* alwaysUploadFiles: p.archiver.uploadFiles(), whose error is only logged,
\* then the select over p.Terminating() and time.After(500ms)
UploadFiles ==
  /\ uploadPc = "upload"
  /\ uploadErr' \in BOOLEAN
  /\ \/ terminating /\ uploadPc' = "done"
     \/ uploadPc' = "check"
  /\ UNCHANGED <<confVars, pipeVars, blocks, shutVars, prodVars, readVars, consVars>>
  /\ UNCHANGED <<stopGo, setMaintenance, stopBlockReached>>
  /\ UNCHANGED extVars

\* ------------------------------------------------- OnTerminating hook
\* a hook that does not wait for the consume task's done signal
waitForReadFlowToComplete_noWait ==
  /\ hookPc = "wait"
  /\ hookPc' = "done"
  /\ stopBlockReached' = stopBlockReached + (IF stopAtBlockNum # 0 THEN 1 ELSE 0)
  /\ terminated' = TRUE
  /\ logPc' = IF hookOwner = "log" THEN "idle" ELSE logPc
  /\ closePc' = IF hookOwner = "close" THEN [closePc EXCEPT !.pc = "idle"] ELSE closePc
  /\ IF hookOwner = "consume"
       THEN consumePc' = "defer" /\ qAtFinal' = Len(blocks)
       ELSE UNCHANGED <<consumePc, qAtFinal>>
  /\ UNCHANGED <<confVars, pipeVars, blocks, readVars, nLines, nCloses>>
  /\ UNCHANGED <<terminating, shutErr, hookOwner, shutCalls, enqAtTerm>>
  /\ UNCHANGED <<fatalErr, clog, consumeReadFlowDone, uploadPc, uploadErr, stopGo, setMaintenance>>
  /\ UNCHANGED extVars

\* The hook after setMaintenanceFunc(): waitForReadFlowToComplete receives
\* from the closed consumeReadFlowDone, stopBlockReachFunc is called when
\* stopBlockNum != 0, then Shutdown finishes and returns to its caller.
waitForReadFlowToComplete ==
  /\ hookPc = "wait"
  /\ consumeReadFlowDone
  /\ hookPc' = "done"
  /\ stopBlockReached' = stopBlockReached + (IF stopAtBlockNum # 0 THEN 1 ELSE 0)
  /\ terminated' = TRUE
  /\ logPc' = IF hookOwner = "log" THEN "idle" ELSE logPc
  /\ closePc' = IF hookOwner = "close" THEN [closePc EXCEPT !.pc = "idle"] ELSE closePc
  /\ IF hookOwner = "consume"
       THEN consumePc' = "defer" /\ qAtFinal' = Len(blocks)
       ELSE UNCHANGED <<consumePc, qAtFinal>>
  /\ UNCHANGED <<confVars, pipeVars, blocks, readVars, nLines, nCloses>>
  /\ UNCHANGED <<terminating, shutErr, hookOwner, shutCalls, enqAtTerm>>
  /\ UNCHANGED <<fatalErr, clog, consumeReadFlowDone, uploadPc, uploadErr, stopGo, setMaintenance>>
  /\ UNCHANGED extVars

\* ---------------------------------------------------------------- Next
Next ==
  \/ Run
  \/ LogLine
  \/ LogLineShutdown
  \/ Close
  \/ CloseShutdown
  \/ readOneMessage
  \/ readOneMessageClosed
  \/ Send
  \/ StopCheck
  \/ StopShutdown
  \/ ConsumeTerminating
  \/ ConsumeBlock
  \/ ConsumeFatal
  \/ ConsumeDeferred
  \/ UploadCheck
  \/ UploadFiles
  \/ waitForReadFlowToComplete

Spec == Init /\ [][Next]_vars

\* ------------------------------------------------------------ fairness
\* Every goroutine that can take a step is eventually scheduled; the host's
\* calls (Run, LogLine, Close) are under no obligation.
ReadTask == readOneMessage \/ readOneMessageClosed \/ Send \/ StopCheck
ConsumeTask == ConsumeTerminating \/ ConsumeBlock \/ ConsumeFatal \/ ConsumeDeferred
UploadTask == UploadCheck \/ UploadFiles
ShutdownCallers == LogLineShutdown \/ CloseShutdown \/ StopShutdown

Fairness ==
  /\ WF_vars(ReadTask)
  /\ WF_vars(ConsumeTask)
  /\ WF_vars(UploadTask)
  /\ WF_vars(ShutdownCallers)
  /\ WF_vars(waitForReadFlowToComplete)

FairSpec == Spec /\ Fairness

\* ------------------------------------------ a host that logs few lines
\* Every configuration, every task and every way to raise the terminating
\* signal, with MaxFewLines lines: small enough for the properties of whole
\* behaviours to be checked under the fairness of the goroutines.
FewLogLine == LogLineOf(Lines, MaxFewLines)

FewLinesNext ==
  \/ Run
  \/ FewLogLine
  \/ LogLineShutdown
  \/ Close
  \/ CloseShutdown
  \/ readOneMessage
  \/ readOneMessageClosed
  \/ Send
  \/ StopCheck
  \/ StopShutdown
  \/ ConsumeTerminating
  \/ ConsumeBlock
  \/ ConsumeFatal
  \/ ConsumeDeferred
  \/ UploadCheck
  \/ UploadFiles
  \/ waitForReadFlowToComplete

FewLinesSpec == Init /\ [][FewLinesNext]_vars /\ Fairness

\* ------------------------------------- the archiver's calls, step by step
\* A call on p.archiver takes time. Here each call begins in one step and
\* returns in a later one, and archiverCalls holds the calls in progress; the
\* other steps of the plugin are the ones above.
Calling(by, call, n) == Append(archiverCalls, [by |-> by, call |-> call, n |-> n])
NotByConsume(c) == c.by # "consume"
NotByUpload(c) == c.by # "upload"

\* select, case block := <-blocks, up to the call p.archiver.storeBlock(block)
storeBlockCall ==
  /\ consumePc = "select"
  /\ blocks # <<>>
  /\ blocks' = recv(blocks).rest
  /\ archiverCalls' = Calling("consume", "storeBlock", recv(blocks).blk)
  /\ consumePc' = "storing"
  /\ UNCHANGED <<confVars, pipeVars, shutVars, prodVars, readVars, miscVars, setMaintenance>>
  /\ UNCHANGED <<fatalErr, clog, consumeReadFlowDone, qAtFinal>>
  /\ UNCHANGED <<opVars, schedVars, selVars, sufVars>>

\* p.archiver.storeBlock(block) returns; continuityChecker.Write and PushBlock on
\* the block, up to the Shutdown call of a fatal error
storeBlockReturn ==
  /\ consumePc = "storing"
  /\ \E storeErr, contErr, pushErr \in BOOLEAN :
       LET b == SelectSeq(archiverCalls, LAMBDA c : c.by = "consume")[1].n
           w == [err |-> contErr]
           s1 == afterStore(storeErr)
           s2 == IF s1 = "check" THEN afterCheck(w.err) ELSE s1
           s3 == IF s2 = "push" THEN afterPush(pushErr) ELSE s2
       IN /\ clog' = clog \o <<Event("store", b, storeErr)>>
                          \o (IF s1 = "check" THEN <<Event("cont", b, w.err)>> ELSE <<>>)
                          \o (IF s2 = "push" THEN <<Event("push", b, pushErr)>> ELSE <<>>)
          /\ setMaintenance' =
               [setMaintenance EXCEPT
                  !.cont = @ + (IF s1 = "check" /\ w.err /\ s2 # "fatal" THEN 1 ELSE 0)]
          /\ consumePc' = s3
          /\ fatalErr' = IF s1 = "fatal" THEN "storeErr"
                         ELSE IF s2 = "fatal" THEN "contErr"
                         ELSE IF s3 = "fatal" THEN "pushErr"
                         ELSE fatalErr
  /\ archiverCalls' = SelectSeq(archiverCalls, NotByConsume)
  /\ UNCHANGED <<confVars, pipeVars, blocks, shutVars, prodVars, readVars, miscVars>>
  /\ UNCHANGED <<consumeReadFlowDone, qAtFinal>>
  /\ UNCHANGED <<opVars, schedVars, selVars, sufVars>>

\* deferred: the call p.archiver.WaitForAllFilesToUpload()
WaitForAllFilesToUploadCall ==
  /\ consumePc = "defer"
  /\ archiverCalls' = Calling("consume", "WaitForAllFilesToUpload", 0)
  /\ consumePc' = "waiting"
  /\ UNCHANGED <<confVars, pipeVars, blocks, shutVars, prodVars, readVars, miscVars, setMaintenance>>
  /\ UNCHANGED <<fatalErr, clog, consumeReadFlowDone, qAtFinal>>
  /\ UNCHANGED <<opVars, schedVars, selVars, sufVars>>

\* deferred: WaitForAllFilesToUpload returns; close(p.consumeReadFlowDone)
WaitForAllFilesToUploadReturn ==
  /\ consumePc = "waiting"
  /\ clog' = Append(clog, Event("wait", 0, FALSE))
  /\ consumeReadFlowDone' = TRUE
  /\ consumePc' = "done"
  /\ archiverCalls' = SelectSeq(archiverCalls, NotByConsume)
  /\ UNCHANGED <<confVars, pipeVars, blocks, shutVars, prodVars, readVars, miscVars, setMaintenance>>
  /\ UNCHANGED <<fatalErr, qAtFinal>>
  /\ UNCHANGED <<opVars, schedVars, selVars, sufVars>>

\* alwaysUploadFiles: the call p.archiver.uploadFiles()
uploadFilesCall ==
  /\ uploadPc = "upload"
  /\ archiverCalls' = Calling("upload", "uploadFiles", 0)
  /\ uploadPc' = "uploading"
  /\ UNCHANGED <<confVars, pipeVars, blocks, shutVars, prodVars, readVars, consVars>>
  /\ UNCHANGED <<uploadErr, stopGo, setMaintenance, stopBlockReached>>
  /\ UNCHANGED <<opVars, schedVars, selVars, sufVars>>

\* alwaysUploadFiles: uploadFiles returns, its error is only logged; then the
\* select over p.Terminating() and time.After(500ms)
uploadFilesReturn ==
  /\ uploadPc = "uploading"
  /\ uploadErr' \in BOOLEAN
  /\ \/ terminating /\ uploadPc' = "done"
     \/ uploadPc' = "check"
  /\ archiverCalls' = SelectSeq(archiverCalls, NotByUpload)
  /\ UNCHANGED <<confVars, pipeVars, blocks, shutVars, prodVars, readVars, consVars>>
  /\ UNCHANGED <<stopGo, setMaintenance, stopBlockReached>>
  /\ UNCHANGED <<opVars, schedVars, selVars, sufVars>>

AccessNext ==
  \/ Run
  \/ FewLogLine
  \/ LogLineShutdown
  \/ Close
  \/ CloseShutdown
  \/ readOneMessage
  \/ readOneMessageClosed
  \/ Send
  \/ StopCheck
  \/ StopShutdown
  \/ ConsumeTerminating
  \/ storeBlockCall
  \/ storeBlockReturn
  \/ ConsumeFatal
  \/ WaitForAllFilesToUploadCall
  \/ WaitForAllFilesToUploadReturn
  \/ UploadCheck
  \/ uploadFilesCall
  \/ uploadFilesReturn
  \/ waitForReadFlowToComplete

AccessSpec == Init /\ [][AccessNext]_vars

\* ------------------------------------------- a host that never calls Close
\* channelCapacity 1, every line a block, up to MaxLines + 2 lines: enough for
\* the channel to fill up after the consume task stopped receiving.
StallInit ==
  /\ gator = [passed |-> FALSE, blockNum |-> 0]
  /\ stopAtBlockNum \in {0, 1}
  /\ channelCapacity = 1
  /\ continuityChecker = FALSE
  /\ InitState
  /\ OperatorInit
  /\ NoSchedule
  /\ NoSelector
  /\ NoSuffix

StallLogLine == LogLineOf({[k |-> "blk", n |-> 1]}, MaxLines + 2)

StallNext ==
  \/ Run
  \/ StallLogLine
  \/ readOneMessage
  \/ Send
  \/ StopCheck
  \/ StopShutdown
  \/ ConsumeTerminating
  \/ ConsumeBlock
  \/ ConsumeFatal
  \/ ConsumeDeferred
  \/ UploadCheck
  \/ UploadFiles
  \/ waitForReadFlowToComplete

StallSpec ==
  /\ StallInit
  /\ [][StallNext]_vars
  /\ WF_vars(readOneMessage \/ Send \/ StopCheck)
  /\ WF_vars(ConsumeTask)
  /\ WF_vars(UploadTask)
  /\ WF_vars(StopShutdown)
  /\ WF_vars(waitForReadFlowToComplete)

\* ============================================ operator: backup modules
\* A plugin that was constructed and never run
MindReaderIdle ==
  /\ gator = [passed |-> FALSE, blockNum |-> 0]
  /\ stopAtBlockNum = 0
  /\ channelCapacity = MaxCap
  /\ continuityChecker = FALSE
  /\ InitState

\* module names; "" is a name like any other for RegisterBackupModule
Names == {"", "a", "b"}

\* a module: its identity and whether it implements RestorableBackupModule
Modules == [id : 1..MaxMods, restore : BOOLEAN]

\* a registration that replaces the module registered under the name
RegisterBackupModule_overwrite(mods, name, mod) ==
  [mods |-> [n \in DOMAIN mods \cup {name} |-> IF n = name THEN mod ELSE mods[n]],
   err |-> "nil"]

\* Operator.RegisterBackupModule: the registry after the call and the error
RegisterBackupModule(mods, name, mod) ==
  IF name \in DOMAIN mods
    THEN [mods |-> mods, err |-> "already registered"]
    ELSE [mods |-> [n \in DOMAIN mods \cup {name} |-> IF n = name THEN mod ELSE mods[n]],
          err |-> "nil"]

\* a selection that takes some module when several are registered
selectBackupModule_anyOfMany(mods, optionalName) ==
  IF Cardinality(DOMAIN mods) = 0
    THEN [mod |-> NoModule, err |-> "no registered backup modules"]
  ELSE IF optionalName # ""
    THEN IF optionalName \in DOMAIN mods
           THEN [mod |-> mods[optionalName], err |-> "nil"]
           ELSE [mod |-> NoModule, err |-> "invalid backup module"]
  ELSE [mod |-> mods[CHOOSE k \in DOMAIN mods : TRUE], err |-> "nil"]

\* selectBackupModule
selectBackupModule(mods, optionalName) ==
  IF Cardinality(DOMAIN mods) = 0
    THEN [mod |-> NoModule, err |-> "no registered backup modules"]
  ELSE IF optionalName # ""
    THEN IF optionalName \in DOMAIN mods
           THEN [mod |-> mods[optionalName], err |-> "nil"]
           ELSE [mod |-> NoModule, err |-> "invalid backup module"]
  ELSE IF Cardinality(DOMAIN mods) > 1
    THEN [mod |-> NoModule, err |-> "more than one module registered"]
  ELSE [mod |-> mods[CHOOSE k \in DOMAIN mods : TRUE], err |-> "nil"]

\* a filter that keeps every module
restorable_all(in) == in

\* restorable: the modules that implement RestorableBackupModule
restorable(in) == [k \in {n \in DOMAIN in : in[n].restore} |-> in[k]]

\* selectRestoreModule
selectRestoreModule(choices, optionalName) ==
  LET mods == restorable(choices)
  IN IF Cardinality(DOMAIN mods) = 0
       THEN [mod |-> NoModule, err |-> "none support restore"]
     ELSE IF optionalName # ""
       THEN IF optionalName \in DOMAIN mods
              THEN [mod |-> mods[optionalName], err |-> "nil"]
              ELSE [mod |-> NoModule, err |-> "invalid restorable backup module"]
     ELSE IF Cardinality(DOMAIN mods) > 1
       THEN [mod |-> NoModule, err |-> "more than one restorable module registered"]
     ELSE [mod |-> mods[CHOOSE k \in DOMAIN mods : TRUE], err |-> "nil"]

\* a call of o.RegisterBackupModule(name, mod)
Register ==
  \E name \in Names, mod \in Modules :
    LET r == RegisterBackupModule(backupModules, name, mod)
    IN /\ backupModules' = r.mods
       /\ ret' = [op |-> "register", name |-> name, mod |-> mod, err |-> r.err]
       /\ UNCHANGED <<mrVars, schedVars, selVars, sufVars, accVars>>

\* a call of selectBackupModule(o.backupModules, name)
SelectBackup ==
  \E name \in Names :
    LET r == selectBackupModule(backupModules, name)
    IN /\ ret' = [op |-> "selectBackup", name |-> name, mod |-> r.mod, err |-> r.err]
       /\ UNCHANGED <<backupModules, mrVars, schedVars, selVars, sufVars, accVars>>

\* a call of selectRestoreModule(o.backupModules, name)
SelectRestore ==
  \E name \in Names :
    LET r == selectRestoreModule(backupModules, name)
    IN /\ ret' = [op |-> "selectRestore", name |-> name, mod |-> r.mod, err |-> r.err]
       /\ UNCHANGED <<backupModules, mrVars, schedVars, selVars, sufVars, accVars>>

BackupInit == MindReaderIdle /\ OperatorInit /\ NoSchedule /\ NoSelector /\ NoSuffix

BackupNext ==
  \/ Register
  \/ SelectBackup
  \/ SelectRestore

BackupSpec == BackupInit /\ [][BackupNext]_vars

\* =========================================== operator: NewBackupSchedule
\* Strings are sequences of characters.
StrSeqs(chars, maxLen) == UNION {[1..n -> chars] : n \in 0..maxLen}

Digits == {"0", "1", "2", "3", "4", "5", "6", "7", "8", "9"}
IsDigit(c) == c \in Digits
DigitVal(c) ==
  CASE c = "0" -> 0 [] c = "1" -> 1 [] c = "2" -> 2 [] c = "3" -> 3 [] c = "4" -> 4
    [] c = "5" -> 5 [] c = "6" -> 6 [] c = "7" -> 7 [] c = "8" -> 8 [] c = "9" -> 9

\* the largest uint64 of the model, and strconv's cutoff for n * 10
MaxUint == 2 ^ UintBits - 1
Cutoff == MaxUint \div 10 + 1

\* strconv.ParseUint(s, 10, 64): digit by digit, a syntax error on any other
\* character, a range error when the value leaves uint64
RECURSIVE ParseUintFrom(_, _, _)
ParseUintFrom(s, i, n) ==
  IF i > Len(s) THEN [v |-> n, err |-> "nil"]
  ELSE IF ~IsDigit(s[i]) THEN [v |-> 0, err |-> "syntax"]
  ELSE IF n >= Cutoff THEN [v |-> MaxUint, err |-> "range"]
  ELSE IF n * 10 + DigitVal(s[i]) > MaxUint THEN [v |-> MaxUint, err |-> "range"]
  ELSE ParseUintFrom(s, i + 1, n * 10 + DigitVal(s[i]))

ParseUint(s) ==
  IF s = <<>> THEN [v |-> 0, err |-> "syntax"] ELSE ParseUintFrom(s, 1, 0)

\* int(freqUint): the conversion of a uint64 to int keeps the bits (64-bit
\* int), so a value with the top bit set comes out negative
ToInt(u) == IF u >= 2 ^ (UintBits - 1) THEN u - 2 ^ UintBits ELSE u

\* time.Duration values are counted in milliseconds
Minute == 60000

\* time.ParseDuration's unitMap, for the units the model's alphabet can spell
\* (0: unknown unit)
UnitMs(u) ==
  CASE u = <<"m", "s">> -> 1
    [] u = <<"s">> -> 1000
    [] u = <<"m">> -> 60000
    [] u = <<"h">> -> 3600000
    [] OTHER -> 0

\* time.ParseDuration, leadingInt: the leading digits and the rest
RECURSIVE leadingInt(_, _)
leadingInt(s, v) ==
  IF s # <<>> /\ IsDigit(Head(s))
    THEN leadingInt(Tail(s), v * 10 + DigitVal(Head(s)))
    ELSE [v |-> v, rest |-> s]

\* time.ParseDuration, the unit: everything up to the next digit
RECURSIVE unitOf(_, _)
unitOf(s, u) ==
  IF s # <<>> /\ ~IsDigit(Head(s))
    THEN unitOf(Tail(s), Append(u, Head(s)))
    ELSE [u |-> u, rest |-> s]

\* time.ParseDuration, the loop over the number-unit groups
RECURSIVE parseGroups(_, _)
parseGroups(s, d) ==
  IF s = <<>> THEN [d |-> d, err |-> "nil"]
  ELSE IF ~IsDigit(Head(s)) THEN [d |-> 0, err |-> "invalid duration"]
  ELSE LET li == leadingInt(s, 0)
           un == unitOf(li.rest, <<>>)
       IN IF un.u = <<>> THEN [d |-> 0, err |-> "missing unit"]
          ELSE IF UnitMs(un.u) = 0 THEN [d |-> 0, err |-> "unknown unit"]
          ELSE parseGroups(un.rest, d + li.v * UnitMs(un.u))

\* time.ParseDuration on strings of digits, unit letters and "-"
ParseDuration(s) ==
  LET neg == s # <<>> /\ Head(s) = "-"
      t == IF neg THEN Tail(s) ELSE s
  IN IF t = <<"0">> THEN [d |-> 0, err |-> "nil"]
     ELSE IF t = <<>> THEN [d |-> 0, err |-> "invalid duration"]
     ELSE LET r == parseGroups(t, 0)
          IN IF r.err # "nil" THEN r
             ELSE [d |-> IF neg THEN 0 - r.d ELSE r.d, err |-> "nil"]

ScheduleError(e) ==
  [err |-> e, BlocksBetweenRuns |-> 0, TimeBetweenRuns |-> 0,
   RequiredHostnameMatch |-> "", BackuperName |-> ""]

\* NewBackupSchedule(freqBlocks, freqTime, requiredHostname, backuperName)
NewBackupSchedule(fb, ft, host, name) ==
  IF fb # <<>>
    THEN LET freqUint == ParseUint(fb)
         IN IF freqUint.err # "nil" \/ freqUint.v = 0
              THEN ScheduleError("invalid value for freq_block")
              ELSE [err |-> "nil", BlocksBetweenRuns |-> ToInt(freqUint.v), TimeBetweenRuns |-> 0,
                    RequiredHostnameMatch |-> host, BackuperName |-> name]
  ELSE IF ft # <<>>
    THEN LET t == ParseDuration(ft)
         IN IF t.err # "nil" \/ t.d < Minute
              THEN ScheduleError("invalid value for freq_time")
              ELSE [err |-> "nil", BlocksBetweenRuns |-> 0, TimeBetweenRuns |-> t.d,
                    RequiredHostnameMatch |-> host, BackuperName |-> name]
  ELSE ScheduleError("schedule created without any frequency value")

\* the frequency strings a caller passes
BlockFreqs == StrSeqs({"0", "1", "2", "8", "x"}, MaxFreqLen)
TimeFreqs == StrSeqs({"0", "1", "6", "s", "m", "h", "-"}, MaxDurLen)

\* the arguments of one NewBackupSchedule call: a block frequency with or
\* without a time frequency, or a time frequency alone
ScheduleInit ==
  /\ MindReaderIdle
  /\ OperatorInit
  /\ NoSelector
  /\ NoSuffix
  /\ \/ freqBlocks \in BlockFreqs /\ freqTime \in {<<>>, <<"1", "s">>, <<"1", "h">>, <<"x">>}
     \/ freqBlocks = <<>> /\ freqTime \in TimeFreqs
  /\ requiredHostname \in {"", "host"}
  /\ backuperName \in {"", "a"}
  /\ sched = NoSched

NewBackupScheduleCall ==
  /\ sched = NoSched
  /\ sched' = NewBackupSchedule(freqBlocks, freqTime, requiredHostname, backuperName)
  /\ UNCHANGED <<freqBlocks, freqTime, requiredHostname, backuperName>>
  /\ UNCHANGED <<mrVars, opVars, selVars, sufVars, accVars>>

ScheduleNext == NewBackupScheduleCall

ScheduleSpec == ScheduleInit /\ [][ScheduleNext]_vars

\* ==================================================== archiver selector
\* Time is counted in seconds.
Hour == 3600

\* genBlocks: block num has Timestamp now - 1h + num seconds
Age(num) == Hour - num

\* the table of TestArchiverSelector; a one-block file is named after its
\* block (genOneBlockFiles), so a file stands as the block's number
TestCases ==
  << [input |-> <<99>>, mergeTimeThreshold |-> 999 * Hour,
      expectUploadedMergedBlocks |-> <<>>, expectBufferedMergedBlocks |-> <<>>,
      expectOneBlocks |-> <<99>>],
     [input |-> <<99>>, mergeTimeThreshold |-> 60,
      expectUploadedMergedBlocks |-> <<>>, expectBufferedMergedBlocks |-> <<>>,
      expectOneBlocks |-> <<99>>],
     [input |-> <<100>>, mergeTimeThreshold |-> 60,
      expectUploadedMergedBlocks |-> <<>>, expectBufferedMergedBlocks |-> <<100>>,
      expectOneBlocks |-> <<>>],
     [input |-> <<100, 101, 102, 103>>, mergeTimeThreshold |-> 60,
      expectUploadedMergedBlocks |-> <<>>,
      expectBufferedMergedBlocks |-> <<100, 101, 102, 103>>,
      expectOneBlocks |-> <<>>],
     [input |-> <<98, 99, 100, 101, 102>>, mergeTimeThreshold |-> 60,
      expectUploadedMergedBlocks |-> <<>>, expectBufferedMergedBlocks |-> <<100, 101, 102>>,
      expectOneBlocks |-> <<98, 99, 100>>],
     [input |-> <<98, 99, 100, 101, 102>>, mergeTimeThreshold |-> 999 * Hour,
      expectUploadedMergedBlocks |-> <<>>, expectBufferedMergedBlocks |-> <<>>,
      expectOneBlocks |-> <<98, 99, 100, 101, 102>>],
     [input |-> <<98, 99, 101, 102>>, mergeTimeThreshold |-> 60,
      expectUploadedMergedBlocks |-> <<>>, expectBufferedMergedBlocks |-> <<101, 102>>,
      expectOneBlocks |-> <<98, 99, 101>>],
     [input |-> <<98, 99, 101, 102, 199, 200, 201>>, mergeTimeThreshold |-> Hour - 199,
      expectUploadedMergedBlocks |-> <<101, 102, 199>>, expectBufferedMergedBlocks |-> <<>>,
      expectOneBlocks |-> <<98, 99, 101, 200, 201>>] >>

\* the numbers and thresholds the test uses
TestNums == {98, 99, 100, 101, 102, 103, 199, 200, 201}
TestThresholds == {999 * Hour, 60, Hour - 199}

\* the blocks of a merged bundle
BundleSize == 100

\* the ascending sequence of the numbers of S
RECURSIVE Ascending(_)
Ascending(S) ==
  IF S = {} THEN <<>>
  ELSE LET x == CHOOSE y \in S : \A z \in S : y <= z
       IN <<x>> \o Ascending(S \ {x})

\* inputs beyond the test's: every ascending sequence of up to MaxInput of the
\* test's numbers, and a run over a whole bundle, 100 .. 201
OtherInputs ==
  {Ascending(S) : S \in {T \in SUBSET TestNums : Cardinality(T) \in 1..MaxInput}}
    \cup {[i \in 1..(BundleSize + 2) |-> BundleSize + i - 1]}

\* a block is old when its age has reached the threshold
IsOld(num, threshold) == Age(num) >= threshold

\* ArchiverSelector.StoreBlock, the decision: the selector after the block,
\* the archiver the block goes to, and whether the merge buffer is abandoned
Decide(sel, num) ==
  LET seen == [sel EXCEPT !.lastSeenNumber = num]
  IN IF sel.mode = "one-block"
       THEN IF IsOld(num, sel.mergeThresholdBlockAge) /\ num % BundleSize = 0
              THEN [sel |-> [seen EXCEPT !.mode = "merging"], to |-> "merge", abandon |-> FALSE]
              ELSE [sel |-> seen, to |-> "one-block", abandon |-> FALSE]
     ELSE IF ~IsOld(num, sel.mergeThresholdBlockAge)
       THEN [sel |-> [seen EXCEPT !.mode = "one-block"], to |-> "one-block", abandon |-> TRUE]
     ELSE IF sel.lastSeenNumber # -1 /\ num # sel.lastSeenNumber + 1
       THEN [sel |-> [seen EXCEPT !.mode = "one-block"], to |-> "one-block", abandon |-> TRUE]
     ELSE [sel |-> seen, to |-> "merge", abandon |-> FALSE]

\* MergeArchiver.StoreBlock: the archiver after the block, and the error
MergeStoreBlock(m, num) ==
  IF m.buffer = <<>> /\ num % BundleSize # 0
    THEN [m |-> m, err |-> "not on boundary"]
  ELSE IF m.buffer # <<>> /\ num # Last(m.buffer) + 1
    THEN [m |-> m, err |-> "non-contiguous"]
  ELSE IF num % BundleSize = BundleSize - 1
    THEN [m |-> [buffer |-> <<>>, uploaded |-> Append(m.uploaded, Append(m.buffer, num))],
          err |-> "nil"]
  ELSE [m |-> [m EXCEPT !.buffer = Append(@, num)], err |-> "nil"]

\* the test's set-up: a row of the table, or another input with one of the
\* thresholds
SelectorTestInit ==
  /\ MindReaderIdle
  /\ OperatorInit
  /\ NoSchedule
  /\ NoSuffix
  /\ \/ /\ test \in DOMAIN TestCases
        /\ input = TestCases[test].input
        /\ SelectorInit(TestCases[test].mergeTimeThreshold)
     \/ /\ test = 0
        /\ input \in OtherInputs
        /\ \E threshold \in TestThresholds : SelectorInit(threshold)

\* err := archiverSelector.StoreBlock(blk); require.NoError(t, err)
StoreBlock ==
  /\ fed < Len(input)
  /\ storeBlockErr = "nil"
  /\ fed' = fed + 1
  /\ LET num == input[fed + 1]
         d == Decide(archiverSelector, num)
         r == MergeStoreBlock(mergeArchiver, num)
     IN /\ archiverSelector' = d.sel
        /\ IF d.to = "merge"
             THEN /\ mergeArchiver' = r.m
                  /\ storeBlockErr' = r.err
                  /\ UNCHANGED oneBlocks
             ELSE /\ oneBlocks' = oneBlocks \cup {num}
                  /\ mergeArchiver' =
                       IF d.abandon THEN [mergeArchiver EXCEPT !.buffer = <<>>] ELSE mergeArchiver
                  /\ storeBlockErr' = "nil"
  /\ UNCHANGED <<test, input, found>>
  /\ UNCHANGED <<mrVars, opVars, schedVars, sufVars, accVars>>

\* getProducedFiles, readMergedFilesBlockNums and the read of
\* mergeArchiver.buffer after the last block of a row: what the test asserts
\* the selector of the repository has left
getProducedFiles ==
  /\ test \in DOMAIN TestCases
  /\ fed = Len(input)
  /\ storeBlockErr = "nil"
  /\ ~found.checked
  /\ found' = [oneBlocks |-> TestCases[test].expectOneBlocks,
               uploadedMergedBlocks |-> TestCases[test].expectUploadedMergedBlocks,
               bufferedMergedBlocks |-> TestCases[test].expectBufferedMergedBlocks,
               checked |-> TRUE]
  /\ UNCHANGED <<test, input, fed, archiverSelector, mergeArchiver, oneBlocks, storeBlockErr>>
  /\ UNCHANGED <<mrVars, opVars, schedVars, sufVars, accVars>>

SelectorNext ==
  \/ StoreBlock
  \/ getProducedFiles

SelectorSpec == SelectorTestInit /\ [][SelectorNext]_vars

\* ======================================= one-block suffix validation
\* the character class [A-Za-z0-9_-]
Lower ==
  {"a", "b", "c", "d", "e", "f", "g", "h", "i", "j", "k", "l", "m",
   "n", "o", "p", "q", "r", "s", "t", "u", "v", "w", "x", "y", "z"}
Upper ==
  {"A", "B", "C", "D", "E", "F", "G", "H", "I", "J", "K", "L", "M",
   "N", "O", "P", "Q", "R", "S", "T", "U", "V", "W", "X", "Y", "Z"}
InClass(c) == c \in Upper \cup Lower \cup Digits \cup {"_", "-"}

\* the match of ^[A-Za-z0-9_-]+$ against s from position i on; some is TRUE
\* once a character of the class was consumed
RECURSIVE MatchFrom(_, _, _)
MatchFrom(s, i, some) ==
  IF i > Len(s) THEN some
  ELSE IF InClass(s[i]) THEN MatchFrom(s, i + 1, TRUE)
  ELSE FALSE

MatchString(s) == MatchFrom(s, 1, FALSE)

\* the %q verb on a string of printable ASCII: double quotes around it, a
\* backslash before every double quote and backslash
RECURSIVE Escaped(_)
Escaped(s) ==
  IF s = <<>> THEN <<>>
  ELSE (IF Head(s) \in {"\"", "\\"} THEN <<"\\", Head(s)>> ELSE <<Head(s)>>) \o Escaped(Tail(s))

Quote(s) == <<"\"">> \o Escaped(s) \o <<"\"">>

InvalidCharacters == "oneblock_suffix contains invalid characters: "

\* the messages an error for the empty suffix may carry: the specification
\* rejects the empty suffix and does not give its message
EmptySuffixTexts == {InvalidCharacters, "another message"}

\* validateOneBlockSuffix(suffix): the results it may return
validateOneBlockSuffix(s) ==
  IF MatchString(s)
    THEN {[called |-> TRUE, err |-> FALSE, text |-> "", arg |-> <<>>]}
  ELSE IF s = <<>>
    THEN {[called |-> TRUE, err |-> TRUE, text |-> t, arg |-> a] :
            t \in EmptySuffixTexts, a \in {<<>>, Quote(s)}}
  ELSE {[called |-> TRUE, err |-> TRUE, text |-> InvalidCharacters, arg |-> Quote(s)]}

example == <<"e", "x", "a", "m", "p", "l", "e">>
exampleHostnameDash == <<"e", "x", "a", "m", "p", "l", "e", "-", "h", "o", "s", "t", "n", "a", "m", "e", "-", "1", "2", "3">>
exampleHostnameUnderscore == <<"e", "x", "a", "m", "p", "l", "e", "_", "h", "o", "s", "t", "n", "a", "m", "e", "_", "1", "2", "3">>
exampleLan == <<"e", "x", "a", "m", "p", "l", "e", ".", "l", "a", "n">>
defaultDat == <<"d", "e", "f", "a", "u", "l", "t", ".", "d", "a", "t">>

\* a test that expects "example.lan" to pass
SuffixTests_dotAccepted ==
  <<[suffix |-> <<>>, expect |-> "Error", text |-> "", arg |-> <<>>],
    [suffix |-> example, expect |-> "NoError", text |-> "", arg |-> <<>>],
    [suffix |-> exampleHostnameDash, expect |-> "NoError", text |-> "", arg |-> <<>>],
    [suffix |-> exampleHostnameUnderscore, expect |-> "NoError", text |-> "", arg |-> <<>>],
    [suffix |-> exampleLan, expect |-> "NoError", text |-> "", arg |-> <<>>]>>

\* TestMindReaderPlugin_OneBlockSuffixFormat: the five assertions; the last
\* one compares the whole message
SuffixTests ==
  <<[suffix |-> <<>>, expect |-> "Error", text |-> "", arg |-> <<>>],
    [suffix |-> example, expect |-> "NoError", text |-> "", arg |-> <<>>],
    [suffix |-> exampleHostnameDash, expect |-> "NoError", text |-> "", arg |-> <<>>],
    [suffix |-> exampleHostnameUnderscore, expect |-> "NoError", text |-> "", arg |-> <<>>],
    [suffix |-> exampleLan, expect |-> "Equal",
     text |-> "oneblock_suffix contains invalid characters: ",
     arg |-> <<"\"">> \o exampleLan \o <<"\"">>]>>

\* the suffixes of the other calls: short strings over letters, a digit, the
\* two punctuation marks of the class and three characters outside it, and
\* the suffix genOneBlockFiles puts in its file names
SuffixChars == {"a", "Z", "7", "_", "-", ".", "\"", " "}
OtherSuffixes == StrSeqs(SuffixChars, MaxSuffixLen) \cup {defaultDat}

SuffixInit ==
  /\ MindReaderIdle
  /\ OperatorInit
  /\ NoSchedule
  /\ NoSelector
  /\ \/ suffixTest \in DOMAIN SuffixTests /\ suffix = SuffixTests[suffixTest].suffix
     \/ suffixTest = 0 /\ suffix \in OtherSuffixes
  /\ suffixRet = NotValidated

\* a call of validateOneBlockSuffix(suffix)
validateOneBlockSuffixCall ==
  /\ ~suffixRet.called
  /\ suffixRet' \in validateOneBlockSuffix(suffix)
  /\ UNCHANGED <<suffixTest, suffix>>
  /\ UNCHANGED <<mrVars, opVars, schedVars, selVars, accVars>>

SuffixNext == validateOneBlockSuffixCall

SuffixSpec == SuffixInit /\ [][SuffixNext]_vars

\* ====================================================== derived history
IsPrefix(a, b) == Len(a) <= Len(b) /\ SubSeq(b, 1, Len(a)) = a
NumsOf(s) == [i \in DOMAIN s |-> s[i].n]

IsStore(e) == e.op = "store"
IsStoreOk(e) == e.op = "store" /\ ~e.err
IsPushOk(e) == e.op = "push" /\ ~e.err
IsBlk(l) == l.k = "blk"
IsReadError(r) == r \notin {"nil", "EOF"}

\* blocks passed to archiver.storeBlock, stored by it, pushed to the server
StoreCalls == NumsOf(SelectSeq(clog, IsStore))
StoredOk == NumsOf(SelectSeq(clog, IsStoreOk))
Pushed == NumsOf(SelectSeq(clog, IsPushOk))

\* a storeBlock or PushBlock error occurred
Fatal == \E i \in DOMAIN clog : clog[i].op \in {"store", "push"} /\ clog[i].err

\* the events of clog, each with the event that follows it
Annot ==
  [i \in DOMAIN clog |->
     [e |-> clog[i],
      contFailed |-> i < Len(clog) /\ clog[i + 1].op = "cont" /\ clog[i + 1].err]]
IsStoredAndChecked(a) == a.e.op = "store" /\ ~a.e.err /\ ~a.contFailed
StoredAndChecked == [i \in DOMAIN SelectSeq(Annot, IsStoredAndChecked) |->
                       SelectSeq(Annot, IsStoredAndChecked)[i].e.n]

\* the events the consume task appended in this step
NewEvents == SubSeq(clog', Len(clog) + 1, Len(clog'))

\* the blocks that reached the gate, and the block readOneMessage is sending
GateIn == NumsOf(SelectSeq(reads, IsBlk))
Pending == IF readPc = "send" THEN <<readBlk>> ELSE <<>>
GateSuffix(s, t) ==
  LET I == {i \in DOMAIN s : s[i] >= t}
  IN IF I = {} THEN <<>>
     ELSE SubSeq(s, CHOOSE i \in I : \A j \in I : i <= j, Len(s))

\* ============================================================== claims

\* C1: once Run was called and Shutdown was initiated (by Close, the stop
\* block, a LogLine write error or a fatal error of the consume task), the
\* consume task eventually closes consumeReadFlowDone, the on-terminating
\* hook returns and termination is reached.
C1_ShutdownCompletes ==
  (running /\ terminating) ~> (consumeReadFlowDone /\ terminated)

\* C2: at every shutdown, every block enqueued before the terminating signal
\* was passed to storeBlock before the consume task finalizes, and the channel
\* was drained when the consume loop returned (WaitForAllFilesToUpload and
\* close(consumeReadFlowDone) come only after that).
C2_DrainBeforeFinalize ==
  consumePc \in {"defer", "done"} =>
    /\ Len(StoreCalls) >= enqAtTerm
    /\ qAtFinal = 0

\* C3: while the pipe writer is not closed the read task keeps consuming the
\* pipe, so every LogLine call eventually returns, also after a shutdown
\* initiated by the stop block or by a fatal consume error.
C3_LogLineReturns ==
  (running /\ logPc = "writing") ~> (logPc = "idle" \/ writer.closed)

\* C4: a readOneMessage error other than end-of-stream makes the read task
\* request maintenance once, call no Shutdown and go on reading; the read task
\* returns only on end-of-stream.
C4_ReadErrorsNeverTerminate ==
  [][/\ (Len(rets') = Len(rets) + 1 /\ IsReadError(Last(rets'))) =>
          /\ setMaintenance'.read = setMaintenance.read + 1
          /\ shutCalls' = shutCalls
          /\ terminating' = terminating
          /\ readPc' = "read"
     /\ (Len(rets') = Len(rets) + 1 /\ ~IsReadError(Last(rets'))) =>
          setMaintenance'.read = setMaintenance.read
     /\ (readPc # "done" /\ readPc' = "done") => Last(rets') = "EOF"]_vars

C4_Witness ==
  /\ \E i, j \in DOMAIN rets : i < j /\ IsReadError(rets[i]) /\ rets[j] = "nil"
  /\ ~terminating
  /\ setMaintenance.read = 1

\* C5: the blocks passed to storeBlock are a prefix of the blocks enqueued on
\* the channel, in the same order, nothing skipped, duplicated or reordered:
\* what was enqueued is what was stored followed by what is still queued.
C5_FIFO ==
  /\ IsPrefix(StoreCalls, enq)
  /\ StoreCalls \o blocks = enq

C5_Witness ==
  /\ Len(StoreCalls) = 2
  /\ StoreCalls[1] # StoreCalls[2]
  /\ uploadPc = "upload"

\* C6: PushBlock(b) is called only right after storeBlock(b) succeeded (and,
\* with a continuity checker, after the check of b passed); the continuity
\* check of b comes right after the successful store of b.
C6_PublishAfterStore ==
  \A i \in DOMAIN clog :
    /\ clog[i].op = "push" =>
         /\ i > 1
         /\ clog[i - 1].n = clog[i].n
         /\ ~clog[i - 1].err
         /\ clog[i - 1].op = (IF continuityChecker THEN "cont" ELSE "store")
    /\ clog[i].op = "cont" =>
         /\ i > 1
         /\ clog[i - 1] = Event("store", clog[i].n, FALSE)

C6_Witness ==
  /\ Len(clog) >= 3
  /\ clog[1].op = "store" /\ clog[2].op = "cont" /\ clog[3].op = "push"
  /\ Fatal

\* C7 (as claimed): with a live server and no fatal error, every block stored
\* successfully is pushed exactly once and in the same order, the blocks whose
\* continuity check reported an error included.
C7_LiveGetsEveryStoredBlock ==
  (blockServer /\ ~Fatal) => Pushed = StoredOk

\* C7 (amended): with a live server and no fatal error, the blocks pushed are,
\* in order and once each, the blocks stored successfully whose continuity
\* check did not report an error; a block whose check failed is not pushed.
C7_LiveGetsStoredAndChecked ==
  (blockServer /\ ~Fatal) => Pushed = StoredAndChecked

C7_Witness ==
  /\ blockServer
  /\ ~Fatal
  /\ \E i \in DOMAIN clog : clog[i].op = "cont" /\ clog[i].err
  /\ Pushed # <<>>

\* C8: a storeBlock or PushBlock error ends the work on the block, makes the
\* consume task call Shutdown with the wrapped error and stops the loop; a
\* continuity error calls no Shutdown, requests maintenance once and sends the
\* loop back to the select for the next block.
C8_ErrorKinds ==
  [][/\ \A i \in DOMAIN NewEvents :
          LET e == NewEvents[i]
          IN /\ (e.op \in {"store", "push"} /\ e.err) =>
                  /\ i = Len(NewEvents)
                  /\ consumePc' = "fatal"
                  /\ fatalErr' = (IF e.op = "store" THEN "storeErr" ELSE "pushErr")
             /\ (e.op = "cont" /\ e.err) =>
                  /\ i = Len(NewEvents)
                  /\ consumePc' = "select"
                  /\ shutCalls' = shutCalls
                  /\ terminating' = terminating
                  /\ setMaintenance'.cont = setMaintenance.cont + 1
     /\ (consumePc = "fatal" /\ consumePc' # "fatal") =>
          /\ shutCalls' = Append(shutCalls, [by |-> "consume", err |-> fatalErr])
          /\ consumePc' \in {"inShutdown", "defer"}
     /\ Fatal => consumePc' # "select"]_vars

C8_Witness ==
  /\ \E i, j \in DOMAIN clog :
       /\ i < j
       /\ clog[i].op = "cont" /\ clog[i].err
       /\ clog[j].op = "store" /\ clog[j].err
  /\ \E k \in DOMAIN shutCalls : shutCalls[k] = [by |-> "consume", err |-> "storeErr"]
  /\ setMaintenance.cont = 1

\* C9: when the stop-block test is reached the block is already enqueued;
\* with stopAtBlockNum > 0, number >= stopAtBlockNum and no termination in
\* progress, readOneMessage spawns Shutdown(nil) and returns nil. With stop = 2
\* and inputs [1,2] both blocks are enqueued, no read returns an error and the
\* hook sees a nil cause.
OnlyStopTriggers == \A i \in DOMAIN shutCalls : shutCalls[i].by = "stop"

C9_Scenario ==
  (/\ stopAtBlockNum = 2
   /\ gator.blockNum = 0
   /\ reads = <<[k |-> "blk", n |-> 1], [k |-> "blk", n |-> 2]>>
   /\ Len(rets) = 2) =>
    /\ enq = <<1, 2>>
    /\ rets = <<"nil", "nil">>
    /\ OnlyStopTriggers => (stopSpawned = 1 /\ (hookPc # "idle" => shutErr = "nil"))

C9_StopBlock ==
  [][/\ (readPc = "stop" /\ readPc' # "stop") =>
          /\ enq # <<>> /\ Last(enq) = readBlk /\ enq' = enq
          /\ rets' = Append(rets, "nil")
          /\ IF stopAtBlockNum > 0 /\ readBlk >= stopAtBlockNum /\ ~terminating
               THEN stopSpawned' = stopSpawned + 1 /\ stopGo' = stopGo + 1
               ELSE stopSpawned' = stopSpawned /\ stopGo' = stopGo
     /\ (Len(shutCalls') > Len(shutCalls) /\ Last(shutCalls').by = "stop") =>
          Last(shutCalls').err = "nil"
     /\ C9_Scenario']_vars

C9_Witness ==
  /\ stopAtBlockNum = 2
  /\ gator.blockNum = 0
  /\ reads = <<[k |-> "blk", n |-> 1], [k |-> "blk", n |-> 2]>>
  /\ enq = <<1, 2>>
  /\ rets = <<"nil", "nil">>
  /\ hookOwner = "stop"
  /\ shutErr = "nil"
  /\ terminated

\* C10: the gate is sticky: the blocks enqueued (or being sent) are exactly
\* the suffix of the blocks read that starts at the first block with number
\* >= target, later smaller numbers included; a block, dropped or not, makes
\* readOneMessage return no error.
C10_StickyGate ==
  /\ enq \o Pending = GateSuffix(GateIn, gator.blockNum)
  /\ gator.passed <=> (\E i \in DOMAIN GateIn : GateIn[i] >= gator.blockNum)
  /\ \A i \in DOMAIN rets : reads[i].k = "blk" => rets[i] = "nil"

C10_Witness ==
  /\ gator.blockNum = 2
  /\ GateIn = <<2, 1>>
  /\ enq = <<2, 1>>

\* the Shutdown calls made by goroutine `by`
ShutdownsBy(by) == Cardinality({i \in DOMAIN shutCalls : shutCalls[i].by = by})

WaitedForAllFilesToUpload == \E i \in DOMAIN clog : clog[i].op = "wait"

\* C12: inside the on-terminating hook maintenance mode is requested first,
\* then the hook waits for the consume task's done signal, which comes after
\* WaitForAllFilesToUpload; stopBlockReached is invoked iff stopBlockNum > 0
\* and only after that signal, never when stopBlockNum = 0.
C12_ProtocolOrder ==
  /\ hookPc \in {"wait", "done"} => setMaintenance.hook = 1
  /\ hookPc = "done" => consumeReadFlowDone
  /\ consumeReadFlowDone => WaitedForAllFilesToUpload
  /\ stopBlockReached > 0 =>
       /\ stopAtBlockNum > 0
       /\ hookPc = "done"
       /\ consumeReadFlowDone
       /\ WaitedForAllFilesToUpload
  /\ hookPc = "done" => stopBlockReached = (IF stopAtBlockNum > 0 THEN 1 ELSE 0)
  /\ stopAtBlockNum = 0 => stopBlockReached = 0

C12_Witness ==
  /\ stopAtBlockNum = 2
  /\ hookPc = "done"
  /\ hookOwner = "close"
  /\ stopBlockReached = 1
  /\ Len(StoreCalls) = 2

\* the lines the console reader took from the pipe
IsLine(l) == l.k \in {"blk", "readErr", "xformErr"}
Delivered == SelectSeq(reads, IsLine)

\* every LogLine call made so far was delivered, ended in a Shutdown call, or
\* is still inside writer.Write / on its way to Shutdown
LogLineAccount ==
  nLines = Len(Delivered) + ShutdownsBy("log")
             + (IF logPc \in {"writing", "shut"} THEN 1 ELSE 0)

\* C13: LogLine never drops input: the line of a call is handed to the pipe
\* reader as written, one line at a time with nothing buffered, or the write
\* fails and LogLine calls Shutdown with the write error; a LogLine after
\* Close calls Shutdown and delivers nothing.
C13_LogLineNeverDrops ==
  [][/\ LogLineAccount'
     /\ Len(pipe') <= 1
     /\ (logPc' = "writing") <=> (pipe' # <<>>)
     /\ (pipe # <<>> /\ pipe' = <<>>) =>
          \/ reads' = Append(reads, Head(pipe)) /\ logPc' = "idle"
          \/ reads' = reads /\ writer'.closed /\ logPc' = "shut"
     /\ (logPc = "shut" /\ logPc' # "shut") =>
          shutCalls' = Append(shutCalls, [by |-> "log", err |-> "writeErr"])
     /\ (nLines' = nLines + 1 /\ writer.closed) =>
          /\ shutCalls' = Append(shutCalls, [by |-> "log", err |-> "writeErr"])
          /\ reads' = reads
          /\ pipe' = <<>>]_vars

C13_Witness ==
  /\ nLines = 2
  /\ Len(Delivered) = 1
  /\ ShutdownsBy("log") = 1
  /\ writer.closed
  /\ nCloses = 1
  /\ logPc = "idle"

\* C14: RegisterBackupModule rejects a name that is already registered and
\* leaves the registry as it was; a new name is always accepted and maps to
\* the module given; an entry of the registry never changes afterwards, so
\* each name maps to the module of its first successful registration.
C14_RegisterRejectsDuplicates ==
  [][/\ \A n \in DOMAIN backupModules :
          n \in DOMAIN backupModules' /\ backupModules'[n] = backupModules[n]
     /\ ret'.op = "register" =>
          IF ret'.name \in DOMAIN backupModules
            THEN ret'.err # "nil" /\ backupModules' = backupModules
            ELSE /\ ret'.err = "nil"
                 /\ DOMAIN backupModules' = DOMAIN backupModules \cup {ret'.name}
                 /\ backupModules'[ret'.name] = ret'.mod]_vars

C14_Witness ==
  /\ ret.op = "register"
  /\ ret.err # "nil"
  /\ backupModules[ret.name] # ret.mod
  /\ DOMAIN backupModules = Names

\* C16: selectBackupModule fails on an empty registry; with a non-empty name it
\* returns the module registered under that name and fails if there is none;
\* with an empty name it returns the sole module when exactly one is
\* registered and fails when several are; it returns only modules of the
\* registry and leaves the registry as it was.
C16_SelectBackupModule ==
  [][ret'.op = "selectBackup" =>
       LET mods == backupModules
           n == Cardinality(DOMAIN backupModules)
           r == ret'
       IN /\ backupModules' = backupModules
          /\ n = 0 => r.err # "nil"
          /\ (n > 0 /\ r.name # "") =>
               IF r.name \in DOMAIN mods
                 THEN r.err = "nil" /\ r.mod = mods[r.name]
                 ELSE r.err # "nil"
          /\ (n = 1 /\ r.name = "") =>
               r.err = "nil" /\ \A k \in DOMAIN mods : r.mod = mods[k]
          /\ (n > 1 /\ r.name = "") => r.err # "nil"
          /\ r.err = "nil" => \E k \in DOMAIN mods : r.mod = mods[k]
          /\ r.err # "nil" => r.mod = NoModule]_vars

C16_Witness ==
  /\ ret.op = "selectBackup"
  /\ ret.name = ""
  /\ ret.err # "nil"
  /\ DOMAIN backupModules = {"a", "b"}
  /\ backupModules["a"] # backupModules["b"]

\* the names registered with a module that has Restore
RestorableNames(mods) == {k \in DOMAIN mods : mods[k].restore}

\* C17: selectRestoreModule never returns a module without Restore; a name
\* registered with a module that has no Restore is rejected; with an empty
\* name it succeeds iff exactly one registered module has Restore, however
\* many others there are; it fails when no registered module has Restore.
C17_SelectRestoreModule ==
  [][ret'.op = "selectRestore" =>
       LET mods == backupModules
           R == RestorableNames(backupModules)
           r == ret'
       IN /\ backupModules' = backupModules
          /\ r.err = "nil" => (r.mod.restore /\ \E k \in R : r.mod = mods[k])
          /\ r.err # "nil" => r.mod = NoModule
          /\ (r.name # "" /\ r.name \in DOMAIN mods /\ ~mods[r.name].restore) => r.err # "nil"
          /\ (r.name # "" /\ r.name \in R) => (r.err = "nil" /\ r.mod = mods[r.name])
          /\ r.name = "" => (r.err = "nil" <=> Cardinality(R) = 1)
          /\ R = {} => r.err # "nil"]_vars

C17_Witness ==
  /\ ret.op = "selectRestore"
  /\ ret.name = ""
  /\ ret.err = "nil"
  /\ DOMAIN backupModules = Names
  /\ Cardinality(RestorableNames(backupModules)) = 1

\* the value of a string of decimal digits
RECURSIVE DecimalValue(_)
DecimalValue(s) ==
  IF s = <<>> THEN 0
  ELSE 10 * DecimalValue(SubSeq(s, 1, Len(s) - 1)) + DigitVal(s[Len(s)])

\* s is the decimal notation of a uint64
IsUint(s) ==
  /\ s # <<>>
  /\ \A i \in DOMAIN s : IsDigit(s[i])
  /\ DecimalValue(s) <= MaxUint

Called == sched # NoSched

\* C15: a schedule returned without error has exactly one of
\* BlocksBetweenRuns > 0 and TimeBetweenRuns >= 1 minute, the other field
\* being zero; no frequency at all, a zero or unparsable block frequency, and
\* a time frequency below one minute or unparsable are rejected; when both
\* frequencies are given the block frequency alone decides.
C15_ScheduleXor ==
  Called =>
    /\ sched.err = "nil" =>
         \/ sched.BlocksBetweenRuns > 0 /\ sched.TimeBetweenRuns = 0
         \/ sched.BlocksBetweenRuns = 0 /\ sched.TimeBetweenRuns >= Minute
    /\ (freqBlocks = <<>> /\ freqTime = <<>>) => sched.err # "nil"
    /\ (freqBlocks # <<>> /\ ~IsUint(freqBlocks)) => sched.err # "nil"
    /\ (freqBlocks # <<>> /\ IsUint(freqBlocks) /\ DecimalValue(freqBlocks) = 0) =>
         sched.err # "nil"
    /\ (freqBlocks # <<>> /\ IsUint(freqBlocks) /\ DecimalValue(freqBlocks) > 0) =>
         (sched.err = "nil" /\ sched.TimeBetweenRuns = 0)
    /\ (freqBlocks = <<>> /\ freqTime # <<>>) =>
         /\ sched.BlocksBetweenRuns = 0
         /\ sched.err = "nil" => sched.TimeBetweenRuns >= Minute
         /\ freqTime \in {<<"1", "s">>, <<"0">>, <<"m">>, <<"1">>, <<"-", "1", "h">>,
                          <<"1", "m", "s">>, <<"6", "0">>, <<"1", "h", "m">>} =>
              sched.err # "nil"
         /\ freqTime = <<"1", "m">> => (sched.err = "nil" /\ sched.TimeBetweenRuns = Minute)
         /\ freqTime = <<"6", "0", "s">> => (sched.err = "nil" /\ sched.TimeBetweenRuns = Minute)
         /\ freqTime = <<"1", "h">> => (sched.err = "nil" /\ sched.TimeBetweenRuns = 60 * Minute)

Range(s) == {s[i] : i \in DOMAIN s}
Contiguous(s) == \A i \in 1..(Len(s) - 1) : s[i + 1] = s[i] + 1
NoDuplicate(s) == \A i, j \in DOMAIN s : s[i] = s[j] => i = j

RECURSIVE Flatten(_)
Flatten(ss) == IF ss = <<>> THEN <<>> ELSE Head(ss) \o Flatten(Tail(ss))

\* the artifacts the modelled selector has left, as the test reads them
Left ==
  [oneBlocks |-> Ascending(oneBlocks),
   uploadedMergedBlocks |-> Flatten(mergeArchiver.uploaded),
   bufferedMergedBlocks |-> mergeArchiver.buffer,
   checked |-> TRUE]

\* C18: the selector starts in one-block mode; in one-block mode a block goes
\* to the merge archiver, and the mode becomes merging, iff the block is old
\* and its number is a multiple of 100, otherwise it goes to the one-block
\* archiver; in merging mode a young block or a block that does not follow
\* lastSeenNumber goes to the one-block archiver, the mode becomes one-block
\* and the merge buffer is abandoned; any other block goes to the merge
\* archiver. On the inputs of TestArchiverSelector StoreBlock returns no
\* error and this rule leaves the artifacts the test finds.
C18_DecisionRule ==
  [][/\ fed' = fed + 1 =>
          LET num == input[fed + 1]
              sel == archiverSelector
              old == IsOld(num, sel.mergeThresholdBlockAge)
              toMerge ==
                /\ oneBlocks' = oneBlocks
                /\ \/ mergeArchiver'.buffer = Append(mergeArchiver.buffer, num)
                   \/ Len(mergeArchiver'.uploaded) = Len(mergeArchiver.uploaded) + 1
              toOneBlock ==
                /\ oneBlocks' = oneBlocks \cup {num}
                /\ mergeArchiver'.uploaded = mergeArchiver.uploaded
          IN /\ (fed = 0) => sel.mode = "one-block"
             /\ sel.mode = "one-block" =>
                  IF old /\ num % 100 = 0
                    THEN toMerge /\ archiverSelector'.mode = "merging"
                    ELSE /\ toOneBlock
                         /\ mergeArchiver'.buffer = mergeArchiver.buffer
                         /\ archiverSelector'.mode = "one-block"
             /\ sel.mode = "merging" =>
                  IF ~old \/ num # sel.lastSeenNumber + 1
                    THEN /\ toOneBlock
                         /\ mergeArchiver'.buffer = <<>>
                         /\ archiverSelector'.mode = "one-block"
                    ELSE toMerge /\ archiverSelector'.mode = "merging"
             /\ archiverSelector'.lastSeenNumber = num
             /\ test # 0 => storeBlockErr' = "nil"
     /\ found'.checked => found' = Left']_vars

\* a merged bundle: the 100 blocks 100k .. 100k+99
IsBundle(b) == Len(b) = BundleSize /\ b[1] % BundleSize = 0 /\ Contiguous(b)

\* a list of uploaded blocks that is made of such bundles
AlignedBundles(s) ==
  /\ Len(s) % BundleSize = 0
  /\ \A i \in DOMAIN s : s[i] % BundleSize = (i - 1) % BundleSize
  /\ \A i \in 1..(Len(s) - 1) : i % BundleSize # 0 => s[i + 1] = s[i] + 1

\* a merge buffer: empty, or contiguous from a multiple of 100
AlignedBuffer(s) == s # <<>> => (s[1] % BundleSize = 0 /\ Contiguous(s))

\* C19: for any sequence of StoreBlock calls every uploaded merged bundle
\* holds exactly the 100 blocks 100k .. 100k+99 in ascending order, the merge
\* buffer is empty right after an upload, and a non-empty merge buffer starts
\* at a multiple of 100 and holds contiguous numbers; this is true of what the
\* modelled archivers hold and of what the test finds uploaded and buffered.
C19_MergeAlignment ==
  [][/\ Len(mergeArchiver'.uploaded) > Len(mergeArchiver.uploaded) =>
          mergeArchiver'.buffer = <<>>
     /\ \A i \in DOMAIN mergeArchiver'.uploaded : IsBundle(mergeArchiver'.uploaded[i])
     /\ AlignedBuffer(mergeArchiver'.buffer)
     /\ found'.checked =>
          /\ AlignedBundles(found'.uploadedMergedBlocks)
          /\ AlignedBuffer(found'.bufferedMergedBlocks)]_vars

\* C20: for any input and any block number n at most one artifact contains n:
\* no block is both a one-block file and in the merge buffer or in an uploaded
\* bundle; this is true of what the modelled archivers hold and of what the
\* test finds.
C20_NoMixedRepresentation ==
  /\ oneBlocks \cap Range(Flatten(mergeArchiver.uploaded) \o mergeArchiver.buffer) = {}
  /\ NoDuplicate(Flatten(mergeArchiver.uploaded) \o mergeArchiver.buffer)
  /\ found.checked =>
       /\ Range(found.oneBlocks)
            \cap Range(found.uploadedMergedBlocks \o found.bufferedMergedBlocks) = {}
       /\ NoDuplicate(found.uploadedMergedBlocks \o found.bufferedMergedBlocks)

\* the rule and the archivers taken alone, on every input
SelectorModelAligned ==
  /\ storeBlockErr = "nil"
  /\ \A i \in DOMAIN mergeArchiver.uploaded : IsBundle(mergeArchiver.uploaded[i])
  /\ AlignedBuffer(mergeArchiver.buffer)
  /\ oneBlocks \cap Range(Flatten(mergeArchiver.uploaded) \o mergeArchiver.buffer) = {}

\* a whole bundle was uploaded and a new buffer was started
SelectorModelUploads ==
  /\ Len(mergeArchiver.uploaded) = 1
  /\ mergeArchiver.buffer = <<200, 201>>

\* ------------------------------------------------------------------ C25
\* C25: for every block frequency string that is the decimal notation of a
\* uint64 greater than zero, NewBackupSchedule returns without error a
\* schedule whose BlocksBetweenRuns is strictly positive and equal to the
\* parsed value: the conversion to int neither goes negative nor changes it.
C25_BlocksBetweenRunsIsParsedValue ==
  (Called /\ IsUint(freqBlocks) /\ DecimalValue(freqBlocks) > 0) =>
    /\ sched.err = "nil"
    /\ sched.BlocksBetweenRuns > 0
    /\ sched.BlocksBetweenRuns = DecimalValue(freqBlocks)

\* ------------------------------------------------------------------ C21
\* what the test asserts of the call it made
SuffixAssertion(t, r) ==
  CASE t.expect = "Error" -> r.err
    [] t.expect = "NoError" -> ~r.err
    [] t.expect = "Equal" -> r.err /\ r.text = t.text /\ r.arg = t.arg

HasOtherCharacter(s) ==
  \E i \in DOMAIN s : s[i] \notin Lower \cup Upper \cup Digits \cup {"_", "-"}

SuffixDefaultDatRejected ==
  (suffixRet.called /\ suffix = defaultDat) => suffixRet.err

\* ------------------------------------------------------------------ C22
\* the step is an uploadFiles call of the uploader task
UploadFilesCalled == uploadPc = "upload" /\ uploadPc' # "upload"

\* an uploadFiles call that failed: no Shutdown call, no maintenance request,
\* and the task goes on to its next IsTerminating test unless the signal ended it
UploadErrorIgnored ==
  (UploadFilesCalled /\ uploadErr') =>
    /\ shutCalls' = shutCalls
    /\ terminating' = terminating
    /\ setMaintenance' = setMaintenance
    /\ uploadPc' \in {"check", "done"}
    /\ uploadPc' = "done" => terminating

\* after a failed call the task calls uploadFiles again or the signal is raised
UploadRetried ==
  (uploadErr /\ uploadPc = "check" /\ ~terminating) ~> (uploadPc = "upload" \/ terminating)

\* once the terminating signal is raised a running uploader task exits
UploaderExits ==
  (terminating /\ uploadPc \in {"check", "upload"}) ~> (uploadPc = "done")

\* C22 as stated: an error of archiver.uploadFiles never initiates Shutdown
\* and never requests maintenance mode, the uploader retries on its next
\* tick; once the terminating signal is raised the uploader task exits, and
\* no uploadFiles call starts after the terminating signal has been raised.
C22_UploaderTask ==
  /\ [][UploadErrorIgnored /\ (UploadFilesCalled => ~terminating)]_vars
  /\ UploadRetried
  /\ UploaderExits

\* C22 as amended: the same, except that the uploader starts no uploadFiles
\* call once its IsTerminating test has seen the signal; the call whose test
\* came before the signal may still start after it.
C22_UploaderTaskAmended ==
  /\ [][/\ UploadErrorIgnored
        /\ (uploadPc = "check" /\ uploadPc' # "check" /\ terminating) => uploadPc' = "done"
        /\ (uploadPc # "upload" /\ uploadPc' = "upload") => (uploadPc = "check" /\ ~terminating)
        /\ UploadFilesCalled => uploadPc' \in {"check", "done"}]_vars
  /\ UploadRetried
  /\ UploaderExits

\* an uploadFiles call failed, nothing was shut down and no maintenance was
\* requested, and the uploader is about to call uploadFiles again
C22_Witness ==
  /\ uploadErr
  /\ uploadPc = "upload"
  /\ shutCalls = <<>>
  /\ setMaintenance = [read |-> 0, cont |-> 0, hook |-> 0]

IsStoreOrWait(c) == c.call \in {"storeBlock", "WaitForAllFilesToUpload"}
IsByUpload(c) == c.by = "upload"

\* C23: storeBlock and WaitForAllFilesToUpload are called by the consume task
\* only and no two such calls are in progress together; the only other call
\* on the archiver is uploadFiles by the uploader task, one at a time; a Run
\* starts at most one read task, one consume task and one uploader task.
C23_ArchiverConfined ==
  /\ \A i \in DOMAIN archiverCalls :
       /\ IsStoreOrWait(archiverCalls[i]) => archiverCalls[i].by = "consume"
       /\ archiverCalls[i].by # "consume" =>
            (archiverCalls[i].by = "upload" /\ archiverCalls[i].call = "uploadFiles")
  /\ Len(SelectSeq(archiverCalls, IsStoreOrWait)) <= 1
  /\ Len(SelectSeq(archiverCalls, IsByUpload)) <= 1
  /\ \A task \in {"read", "consume", "upload"} : spawned[task] <= (IF running THEN 1 ELSE 0)

\* storeBlock by the consume task and uploadFiles by the uploader task are in
\* progress together
C23_Witness ==
  /\ Len(archiverCalls) = 2
  /\ \E i \in DOMAIN archiverCalls :
       archiverCalls[i].by = "consume" /\ archiverCalls[i].call = "storeBlock"
  /\ \E i \in DOMAIN archiverCalls :
       archiverCalls[i].by = "upload" /\ archiverCalls[i].call = "uploadFiles"

====
